---- MODULE Spec2Model ----
(***************************************************************************)
(* Addon composition layer of ember-cli (lib/models/addon.js): module      *)
(* naming, module discovery, the shared import whitelist written by        *)
(* compileAddon, per-category tree assembly and entry-point resolution.    *)
(*                                                                         *)
(* JavaScript strings are sequences of one-character strings, so that      *)
(* toLowerCase, replace, slice, extname and concatenation are computed     *)
(* character by character.                                                  *)
(*                                                                         *)
(* The contents of trees and the build packages (_requireBuildPackages,     *)
(* the preprocessors, pickFiles, mergeTrees, concatFiles) are collaborators *)
(* without state of their own here: a call to one is recorded by the        *)
(* options it is given.  app.importWhitelist is an object from names to     *)
(* arrays; an array is kept with the addon that created it, since assign    *)
(* stores references.                                                       *)
(***************************************************************************)
EXTENDS Naturals, Sequences, FiniteSets, TLC

(***************************************************************************)
(* Bounds of the model.                                                     *)
(***************************************************************************)
\* compileAddon calls per addon in one build
MaxCompiles == 2

Addons == {"A", "B"}

(***************************************************************************)
(* String primitives.                                                       *)
(***************************************************************************)
UpperCase == <<"A","B","C","D","E","F","G","H","I","J","K","L","M",
               "N","O","P","Q","R","S","T","U","V","W","X","Y","Z">>
LowerCase == <<"a","b","c","d","e","f","g","h","i","j","k","l","m",
               "n","o","p","q","r","s","t","u","v","w","x","y","z">>

\* the characters the regular expression class \s matches (ASCII part)
Whitespace == {" ", "\t", "\n", "\r", "\f"}

ToLowerChar(c) ==
  IF \E i \in DOMAIN UpperCase : UpperCase[i] = c
  THEN LowerCase[CHOOSE i \in DOMAIN UpperCase : UpperCase[i] = c]
  ELSE c

\* String.prototype.toLowerCase
ToLowerCase(s) == [i \in DOMAIN s |-> ToLowerChar(s[i])]

\* s.replace(/\s/g, '-')
ReplaceWhitespace(s) == [i \in DOMAIN s |-> IF s[i] \in Whitespace THEN "-" ELSE s[i]]

\* s.slice(from - 1, to) with 1-based inclusive bounds
Slice(s, from, to) == IF from > to THEN <<>> ELSE SubSeq(s, from, to)

\* the 1-based positions at which pat occurs in s
Occurrences(s, pat) ==
  {i \in 1..(Len(s) + 1) :
     /\ i + Len(pat) - 1 <= Len(s)
     /\ \A j \in 1..Len(pat) : s[i + j - 1] = pat[j]}

Min(S) == CHOOSE m \in S : \A n \in S : m <= n
Max(S) == CHOOSE m \in S : \A n \in S : m >= n

\* s.replace(pat, rep) with a string pattern: the first occurrence only
ReplaceFirst(s, pat, rep) ==
  LET occ == Occurrences(s, pat)
  IN IF occ = {} THEN s
     ELSE LET i == Min(occ)
          IN Slice(s, 1, i - 1) \o rep \o Slice(s, i + Len(pat), Len(s))

\* path.basename: what follows the last "/"
BaseName(p) ==
  LET sl == {i \in DOMAIN p : p[i] = "/"}
  IN IF sl = {} THEN p ELSE Slice(p, Max(sl) + 1, Len(p))

\* path.extname: from the last "." of the basename to its end; empty when
\* there is no "." or the only "." starts the basename
ExtName(p) ==
  LET b    == BaseName(p)
      dots == {i \in DOMAIN b : b[i] = "."}
  IN IF dots = {} \/ Max(dots) = 1 THEN <<>>
     ELSE Slice(b, Max(dots), Len(b))

\* path.join(a, b) for two normalised, non-empty relative parts
PathJoin(a, b) == a \o <<"/">> \o b

HasSuffix(s, suf) ==
  /\ Len(suf) <= Len(s)
  /\ Slice(s, Len(s) - Len(suf) + 1, Len(s)) = suf

\* the path segments of p start at position 1 and after every "/"
SegmentStarts(p) == {1} \cup {i + 1 : i \in {j \in DOMAIN p : p[j] = "/"}}


(***************************************************************************)
(* The addon's fixed tables (constructor, lines 23-43).                     *)
(***************************************************************************)
\* this.treePaths: category -> directory below the addon's root
treePaths ==
  ("app"              :> <<"a","p","p">>) @@
  ("styles"           :> <<"a","p","p","/","s","t","y","l","e","s">>) @@
  ("templates"        :> <<"a","p","p","/","t","e","m","p","l","a","t","e","s">>) @@
  ("addon"            :> <<"a","d","d","o","n">>) @@
  ("addon-styles"     :> <<"a","d","d","o","n","/","s","t","y","l","e","s">>) @@
  ("addon-templates"  :> <<"a","d","d","o","n","/","t","e","m","p","l","a","t","e","s">>) @@
  ("vendor"           :> <<"v","e","n","d","o","r">>) @@
  ("test-support"     :> <<"t","e","s","t","-","s","u","p","p","o","r","t">>) @@
  ("public"           :> <<"p","u","b","l","i","c">>)

\* this.treeForMethods: the categories that have an override hook slot
treeForMethods == {"app", "styles", "templates", "addon", "vendor", "test-support", "public"}

\* the hooks Addon.prototype itself defines: treeForAddon and treeForPublic
PrototypeHooks == {"addon", "public"}

\* registry.extensionsForType('js') with a CoffeeScript preprocessor installed
JsExtensions == {<<"j","s">>, <<"c","o","f","f","e","e">>}

\* every addon of the model lives in its own package directory
Root(a) == IF a = "A" THEN <<"/","A">> ELSE <<"/","B">>

(***************************************************************************)
(* Inputs: names given to addons, files below <root>/addon, the entries    *)
(* the owning app's importWhitelist holds before any addon is compiled.    *)
(***************************************************************************)
NameX     == <<"X">>
Namex     == <<"x">>
NameMyA   == <<"M","y"," ","A">>
Names     == {NameX, Namex, NameMyA}
\* values a later assignment to `name` may store
NewNames  == {Namex, NameMyA, <<>>}

FileIndex  == <<"i","n","d","e","x",".","j","s">>
FileFoo    == <<"f","o","o",".","j","s">>
FileBarBaz == <<"b","a","r","/","b","a","z",".","j","s">>
FileFooCs  == <<"f","o","o",".","c","o","f","f","e","e">>
FileReadme == <<"R","E","A","D","M","E",".","m","d">>
FileDotJs  == <<".","j","s">>
FileHidden == <<".","t","m","p","/","a",".","j","s">>
FileSets ==
  { {},
    {FileReadme, FileDotJs, FileHidden},
    {FileFoo},
    {FileIndex, FileFooCs},
    {FileFoo, FileBarBaz, FileIndex, FileReadme} }

Default == <<"default">>
\* an array object is identified by who created it and by what it holds
Entry(owner, exports) == [owner |-> owner, exports |-> exports]

EmptyMap == [k \in {} |-> Entry("app", Default)]
\* x/foo as the app's own import with two named exports
AppWhitelist ==
  [k \in { <<"x","/","f","o","o">> } |-> Entry("app", <<"default", "raw">>)]
InitWhitelists == {EmptyMap, AppWhitelist}


(***************************************************************************)
(* State.                                                                   *)
(***************************************************************************)
VARIABLES
  name,             \* this.name of every addon
  modulePrefix,     \* this.modulePrefix; <<>> is unset (or empty: both falsy)
  includedModules,  \* this._includedModules: [set, map]
  files,            \* the files below <root>/addon, relative to it
  dirs,             \* the category directories that exist below the root
  importWhitelist,  \* app.importWhitelist of the owning app
  compiles,         \* compileAddon calls made, per addon
  env,              \* process-wide: development mode, app.hinting, path.join strict
  pkg,              \* the package manifest handed to Addon.resolvePath
  last              \* the most recent call: what it was given and what it gave

vars == <<name, modulePrefix, includedModules, files, dirs, importWhitelist,
          compiles, env, pkg, last>>

Keys(m) == DOMAIN m

\* lodash assign(target, source): own keys of source written over target
assign(target, source) ==
  [k \in Keys(target) \cup Keys(source) |->
     IF k \in Keys(source) THEN source[k] ELSE target[k]]

NoModules == [set |-> FALSE, map |-> EmptyMap]

(***************************************************************************)
(* moduleName (lines 283-289).                                              *)
(***************************************************************************)
\* (this.modulePrefix || this.name).toLowerCase().replace(/\s/g, '-')
Slug(s) == ReplaceWhitespace(ToLowerCase(s))

\* moduleName without the memo test of line 284
moduleNameRecomputed(a) == Slug(name[a])

\* the value this.modulePrefix holds once moduleName() has returned
moduleName(a) ==
  IF modulePrefix[a] = <<>> THEN Slug(name[a]) ELSE modulePrefix[a]

(***************************************************************************)
(* includedModules (lines 127-149) and _jsFileGlob (lines 261-265).         *)
(***************************************************************************)
\* glob '**/*.+(js|coffee)': no segment starts with "." and the basename is
\* some characters, a "." and one of the extensions
JsFileGlob(p) ==
  /\ \A i \in SegmentStarts(p) : i <= Len(p) => p[i] # "."
  /\ \E e \in JsExtensions : HasSuffix(BaseName(p), <<".">> \o e)

\* modulePath.slice(0, -(path.extname(modulePath).length)); slice(0, -0) is ''
StripExtension(p) ==
  LET n == Len(ExtName(p))
  IN IF n = 0 THEN <<>> ELSE Slice(p, 1, Len(p) - n)

AddonTreePath(a) == PathJoin(Root(a), treePaths["addon"])

\* glob.sync(path.join(treePath, this._jsFileGlob()))
GlobSync(a) == {PathJoin(AddonTreePath(a), f) : f \in {g \in files[a] : JsFileGlob(g)}}

ModulePath(a, filePath, prefix) ==
  StripExtension(ReplaceFirst(filePath, AddonTreePath(a), prefix))

\* the bare alias of lines 144-146
IndexAlias(prefix, ks) ==
  IF (prefix \o <<"/","i","n","d","e","x">>) \in ks THEN {prefix} ELSE {}

\* the mapping lines 136-146 build, every value a fresh ['default']
DiscoverModules(a, prefix) ==
  LET ks == {ModulePath(a, fp, prefix) : fp \in GlobSync(a)}
  IN [k \in ks \cup IndexAlias(prefix, ks) |-> Entry(a, Default)]

\* includedModules without the memo test of line 128
includedModulesRescanned(a) == [set |-> TRUE, map |-> DiscoverModules(a, moduleName(a))]

\* this._includedModules once includedModules() has returned
includedModulesAfter(a) ==
  IF includedModules[a].set THEN includedModules[a]
  ELSE [set |-> TRUE, map |-> DiscoverModules(a, moduleName(a))]


(***************************************************************************)
(* The record of the most recent call.                                      *)
(***************************************************************************)
NoCall ==
  [op             |-> "none",    \* which method ran
   addon          |-> "none",    \* on which addon
   arg            |-> "",        \* treeFor's category
   outcome        |-> "nothing", \* "value", "nothing" (undefined) or "error"
   retName        |-> <<>>,      \* moduleName's value
   retModules     |-> EmptyMap,  \* includedModules' value
   retTree        |-> <<>>,      \* the branches of the merged tree returned
   retPath        |-> <<>>,      \* resolvePath's value
   notice         |-> FALSE,     \* a deprecation notice was printed
   linked         |-> FALSE,     \* compileES6 was called
   ignoredModules |-> {},        \* its ignoredModules option, as a set
   inputFiles     |-> <<>>,      \* its inputFiles[0] option
   branches       |-> <<>>,      \* the trees merged for it
   destDir        |-> <<>>]      \* the destDir addonJsFiles gave pickFiles

Call(op, a) == [NoCall EXCEPT !.op = op, !.addon = a]

(***************************************************************************)
(* Calls on one addon.                                                      *)
(***************************************************************************)
\* Addon.prototype.moduleName
ModuleName(a) ==
  /\ modulePrefix' = [modulePrefix EXCEPT ![a] = moduleName(a)]
  /\ last' = [Call("moduleName", a) EXCEPT !.outcome = "value", !.retName = moduleName(a)]
  /\ UNCHANGED <<name, includedModules, files, dirs, importWhitelist, compiles,
                 env, pkg>>

\* this.modulePrefix once includedModules() has returned: moduleName() runs
\* at line 144 only when the mapping is not memoized yet
PrefixAfterIncludedModules(a) ==
  IF includedModules[a].set THEN modulePrefix[a] ELSE moduleName(a)

\* Addon.prototype.includedModules
IncludedModules(a) ==
  /\ includedModules' = [includedModules EXCEPT ![a] = includedModulesAfter(a)]
  /\ modulePrefix' = [modulePrefix EXCEPT ![a] = PrefixAfterIncludedModules(a)]
  /\ last' = [Call("includedModules", a) EXCEPT
                !.outcome = "value", !.retModules = includedModulesAfter(a).map]
  /\ UNCHANGED <<name, files, dirs, importWhitelist, compiles, env, pkg>>

\* an assignment to addon.name by the addon's author or a caller
SetName(a, n) ==
  /\ n # name[a]
  /\ name' = [name EXCEPT ![a] = n]
  /\ last' = Call("setName", a)
  /\ UNCHANGED <<modulePrefix, includedModules, files, dirs, importWhitelist,
                 compiles, env, pkg>>

\* the files below <root>/addon change on disk
SetFiles(a, fs) ==
  /\ fs # files[a]
  /\ files' = [files EXCEPT ![a] = fs]
  /\ dirs' = [dirs EXCEPT ![a] = IF fs = {} THEN @ ELSE @ \cup {"addon"}]
  /\ last' = Call("setFiles", a)
  /\ UNCHANGED <<name, modulePrefix, includedModules, importWhitelist, compiles,
                 env, pkg>>

(***************************************************************************)
(* compileAddon (lines 215-238) with addonJsFiles (lines 267-281).          *)
(***************************************************************************)
Glob == <<"/","*","*","/","*",".","j","s">>

\* line 235 moved before line 227: the merge done before the link
IgnoredAfterMerge(a) ==
  Keys(assign(importWhitelist, includedModulesAfter(a).map)) \cup {moduleName(a)}

\* options.ignoredModules (line 228), as the set of the array's elements
IgnoredModules(a) == Keys(importWhitelist) \cup {moduleName(a)}

\* options.inputFiles[0] (line 229)
InputFiles(a) == name[a] \o Glob

\* pickFiles' destDir in addonJsFiles (line 274)
AddonJsDestDir(a) == moduleName(a)

\* compileAddon without the early return of lines 218-220
NeverShortCircuits(a) == FALSE

\* line 218
ShortCircuits(a) == Keys(includedModulesAfter(a).map) = {}

\* line 235 as a plain assignment of the addon's modules
WhitelistReplaced(a) == includedModulesAfter(a).map

\* line 235 left out
WhitelistNotMerged(a) == importWhitelist

\* line 235
WhitelistAfterCompile(a) == assign(importWhitelist, includedModulesAfter(a).map)

\* what compileAddon does to the addon and to the app; rec is the call's record
CompileAddonEffect(a, rec) ==
  /\ compiles[a] < MaxCompiles
  /\ compiles' = [compiles EXCEPT ![a] = @ + 1]
  /\ includedModules' = [includedModules EXCEPT ![a] = includedModulesAfter(a)]
  /\ IF ShortCircuits(a)
     THEN /\ modulePrefix' = [modulePrefix EXCEPT ![a] = PrefixAfterIncludedModules(a)]
          /\ importWhitelist' = importWhitelist
          /\ last' = rec
     ELSE /\ modulePrefix' = [modulePrefix EXCEPT ![a] = moduleName(a)]
          /\ importWhitelist' = WhitelistAfterCompile(a)
          /\ last' = [rec EXCEPT !.linked = TRUE,
                                 !.ignoredModules = IgnoredModules(a),
                                 !.inputFiles = InputFiles(a),
                                 !.destDir = AddonJsDestDir(a)]

\* the branches merged at line 225
CompileBranches(a) ==
  IF "addon-templates" \in dirs[a]
  THEN <<"addonJs", "templates", "reexport">>
  ELSE <<"addonJs", "reexport">>

\* Addon.prototype.compileAddon
CompileAddon(a) ==
  /\ CompileAddonEffect(a,
       IF ShortCircuits(a) THEN Call("compileAddon", a)
       ELSE [Call("compileAddon", a) EXCEPT !.outcome = "value",
                                             !.branches = CompileBranches(a)])
  /\ UNCHANGED <<name, files, dirs, env, pkg>>



(***************************************************************************)
(* treeFor (lines 90-105), _treeFor (lines 107-121), treeGenerator (lines   *)
(* 79-88) and the two hooks the prototype defines (lines 151-176).          *)
(* A branch of the returned composite is <<what, watched or frozen>>.       *)
(***************************************************************************)
Categories == DOMAIN treePaths \cup {"bogus"}

\* Addon.prototype.treeGenerator: the directory itself in development mode,
\* an unwatched snapshot otherwise
treeGenerator(what) == <<what, IF env.development THEN "watched" ELSE "frozen">>

\* what an addon author's own treeFor<Category> hook may do
HookChoices == {"absent", "returnsTree", "returnsNothing"}

\* _treeFor for a category whose hook, if any, is the author's
OwnTree(a, cat, hook) ==
  IF cat \notin dirs[a] THEN <<>>
  ELSE IF cat \in treeForMethods /\ hook = "returnsTree" THEN << <<"hook", "custom">> >>
  ELSE IF cat \in treeForMethods /\ hook = "returnsNothing" THEN <<>>
  ELSE << treeGenerator(cat) >>

\* line 100
Lints(cat) == env.development /\ env.hinting /\ cat = "app"

\* treeFor of a category that is no key of treePaths: path.join(root,
\* undefined) throws a TypeError where path.join insists on strings, and
\* yields the root itself where it drops what is no string; the root exists
TreeForUnknown(a, cat) ==
  /\ cat \notin DOMAIN treePaths
  /\ last' = IF env.strictJoin
             THEN [Call("treeFor", a) EXCEPT !.arg = cat, !.outcome = "error"]
             ELSE [Call("treeFor", a) EXCEPT !.arg = cat, !.outcome = "value",
                                             !.retTree = << treeGenerator("root") >>]
  /\ UNCHANGED <<name, modulePrefix, includedModules, files, dirs, importWhitelist,
                 compiles, env, pkg>>

\* treeFor of a category without a prototype hook; cwdAddon: whether the
\* relative path 'addon' exists where jshintAddonTree looks (line 245)
TreeForPlain(a, cat, hook, cwdAddon) ==
  /\ cat \in DOMAIN treePaths \ PrototypeHooks
  /\ LET lint == Lints(cat) /\ cwdAddon
     IN /\ last' = [Call("treeFor", a) EXCEPT
                      !.arg = cat, !.outcome = "value",
                      !.retTree = OwnTree(a, cat, hook) \o
                                  (IF lint THEN << <<"jshint", "lint">> >> ELSE <<>>)]
        /\ modulePrefix' = IF lint THEN [modulePrefix EXCEPT ![a] = moduleName(a)]
                           ELSE modulePrefix
  /\ UNCHANGED <<name, includedModules, files, dirs, importWhitelist, compiles,
                 env, pkg>>

\* treeFor('public'): treeForPublic moves the tree below /<moduleName>
TreeForPublic(a) ==
  /\ IF "public" \in dirs[a]
     THEN /\ modulePrefix' = [modulePrefix EXCEPT ![a] = moduleName(a)]
          /\ last' = [Call("treeFor", a) EXCEPT
                        !.arg = "public", !.outcome = "value",
                        !.destDir = <<"/">> \o moduleName(a),
                        !.retTree = << <<"public", "moved">> >>]
     ELSE /\ modulePrefix' = modulePrefix
          /\ last' = [Call("treeFor", a) EXCEPT !.arg = "public", !.outcome = "value"]
  /\ UNCHANGED <<name, includedModules, files, dirs, importWhitelist, compiles,
                 env, pkg>>

\* treeFor('addon'): treeForAddon compiles the addon and merges the
\* bundle with the styles; the merge is a tree even when both are missing
TreeForAddon(a) ==
  /\ IF "addon" \in dirs[a]
     THEN CompileAddonEffect(a,
            [Call("treeFor", a) EXCEPT !.arg = "addon", !.outcome = "value",
                                       !.retTree = << <<"addon", "bundle">> >>])
     ELSE /\ last' = [Call("treeFor", a) EXCEPT !.arg = "addon", !.outcome = "value"]
          /\ UNCHANGED <<modulePrefix, includedModules, importWhitelist, compiles>>
  /\ UNCHANGED <<name, files, dirs, env, pkg>>

(***************************************************************************)
(* Addon.resolvePath (lines 309-322).                                       *)
(***************************************************************************)
\* a manifest field: absent (undefined) or a string
Absent == [present |-> FALSE, value |-> <<>>]
Field(v) == [present |-> TRUE, value |-> v]

\* JavaScript truthiness of such a field: undefined and '' are falsy
Truthy(f) == f.present /\ f.value # <<>>

IndexJs == <<"i","n","d","e","x",".","j","s">>
DotJs == <<".","j","s">>

\* deprecate(message, test): the notice is printed when test is truthy
Deprecate(test) == Truthy(test)

\* line 314 reads pkg['ember-addon'].main: a TypeError without the section
ResolveThrows(p) == ~Truthy(p.legacyMain) /\ ~p.hasSection

\* line 314 with its first two operands exchanged
AddonMainCurrentFirst(p) ==
  IF Truthy(p.main) THEN p.main.value
  ELSE IF Truthy(p.legacyMain) THEN p.legacyMain.value
  ELSE IndexJs

\* line 314
AddonMain(p) ==
  IF Truthy(p.legacyMain) THEN p.legacyMain.value
  ELSE IF Truthy(p.main) THEN p.main.value
  ELSE IndexJs

\* lines 317-319
WithExtension(m) == IF ExtName(m) = <<>> THEN m \o DotJs ELSE m

\* path.resolve(dir, m) for an absolute dir and a normalised m
PathResolve(dir, m) == IF m # <<>> /\ m[1] = "/" THEN m ELSE PathJoin(dir, m)

ResolvePath ==
  /\ last' = IF ResolveThrows(pkg)
             THEN [Call("resolvePath", "none") EXCEPT
                     !.outcome = "error", !.notice = Deprecate(pkg.legacyMain)]
             ELSE [Call("resolvePath", "none") EXCEPT
                     !.outcome = "value", !.notice = Deprecate(pkg.legacyMain),
                     !.retPath = PathResolve(pkg.path, WithExtension(AddonMain(pkg)))]
  /\ UNCHANGED <<name, modulePrefix, includedModules, files, dirs, importWhitelist,
                 compiles, env, pkg>>


(***************************************************************************)
(* Specifications.  An addon is constructed with a non-empty name (line 45  *)
(* rejects any other) and bound to the one app before it is used.           *)
(***************************************************************************)
NoPkg == [name |-> <<>>, legacyMain |-> Absent, hasSection |-> FALSE,
          main |-> Absent, path |-> <<>>]

FixedEnv == [development |-> FALSE, hinting |-> FALSE, strictJoin |-> TRUE]

\* the directories a package with these addon files has
DirsFor(a, fs) ==
  IF fs = {} THEN {}
  ELSE IF a = "A" THEN {"addon", "addon-templates"} ELSE {"addon"}

Fresh ==
  /\ modulePrefix = [a \in Addons |-> <<>>]
  /\ includedModules = [a \in Addons |-> NoModules]
  /\ compiles = [a \in Addons |-> 0]
  /\ last = NoCall

\* The build pass: every addon named, scanned and compiled, in any order and
\* any number of times, against one app.
Init ==
  /\ Fresh
  /\ name \in [Addons -> Names]
  /\ files \in [Addons -> FileSets]
  /\ dirs = [a \in Addons |-> DirsFor(a, files[a])]
  /\ importWhitelist \in InitWhitelists
  /\ env = FixedEnv
  /\ pkg = NoPkg

Next ==
  \/ \E a \in Addons : ModuleName(a)
  \/ \E a \in Addons : IncludedModules(a)
  \/ \E a \in Addons : CompileAddon(a)

Spec == Init /\ [][Next]_vars

\* Naming and discovery while addon A is being developed: its name
\* attribute and its files change between calls; B is an installed package.
Developed == {"A"}
AllNames == Names \cup NewNames

ModuleInit ==
  /\ Fresh
  /\ name \in {n \in [Addons -> Names] : n["B"] = Namex}
  /\ files \in {f \in [Addons -> FileSets] : f["B"] = {FileFoo}}
  /\ dirs = [a \in Addons |-> DirsFor(a, files[a])]
  /\ importWhitelist = EmptyMap
  /\ env = FixedEnv
  /\ pkg = NoPkg

ModuleNext ==
  \/ \E a \in Addons : ModuleName(a)
  \/ \E a \in Addons : IncludedModules(a)
  \/ \E a \in Developed : \E n \in AllNames : SetName(a, n)
  \/ \E a \in Developed : \E fs \in FileSets : SetFiles(a, fs)

ModuleSpec == ModuleInit /\ [][ModuleNext]_vars

\* Tree assembly: treeFor on any category name, in either mode.
TreeDirSets == { {}, {"app", "addon", "public"}, DOMAIN treePaths }

TreeInit ==
  /\ Fresh
  /\ name = [a \in Addons |-> IF a = "A" THEN NameX ELSE NameMyA]
  /\ dirs \in [Addons -> TreeDirSets]
  /\ files = [a \in Addons |-> IF "addon" \in dirs[a] THEN {FileIndex, FileFoo} ELSE {}]
  /\ importWhitelist = EmptyMap
  /\ env \in [development : BOOLEAN, hinting : BOOLEAN, strictJoin : BOOLEAN]
  /\ pkg = NoPkg

TreeNext ==
  \/ \E a \in Addons : \E cat \in Categories : TreeForUnknown(a, cat)
  \/ \E a \in Addons : \E cat \in Categories : \E hook \in HookChoices :
       \E cwdAddon \in BOOLEAN : TreeForPlain(a, cat, hook, cwdAddon)
  \/ \E a \in Addons : TreeForPublic(a)
  \/ \E a \in Addons : TreeForAddon(a)

TreeSpec == TreeInit /\ [][TreeNext]_vars

\* Entry-point resolution over package manifests.
MainValues == {<<>>, <<"m","a","i","n">>, <<"l","i","b","/","m","a","i","n",".","j","s">>, <<"a","d","d","o","n">>}
Manifests ==
  [name       : {<<"p","k">>},
   legacyMain : {Absent} \cup {Field(v) : v \in MainValues},
   hasSection : BOOLEAN,
   main       : {Absent} \cup {Field(v) : v \in MainValues},
   path       : {Root("A"), Root("B")}]

ResolveInit ==
  /\ Fresh
  /\ name = [a \in Addons |-> Namex]
  /\ files = [a \in Addons |-> {}]
  /\ dirs = [a \in Addons |-> {}]
  /\ importWhitelist = EmptyMap
  /\ env = FixedEnv
  /\ pkg \in {p \in Manifests : p.main.present => p.hasSection}

ResolveNext == ResolvePath

ResolveSpec == ResolveInit /\ [][ResolveNext]_vars


(***************************************************************************)
(* Properties.                                                              *)
(***************************************************************************)
\* the step is a compileAddon call on a (treeForAddon's included)
Compiles(a) == compiles'[a] = compiles[a] + 1

\* what a's includedModules() returns from the current state
ModulesOf(a) == Keys(includedModulesAfter(a).map)

C2_FirstCompilerNotPreclaimed ==
  [][\A a \in Addons : \A b \in Addons \ {a} :
       Compiles(a) =>
         \A k \in ModulesOf(a) \cap ModulesOf(b) :
           /\ k \notin Keys(importWhitelist) =>
                k \notin last'.ignoredModules /\ k \in Keys(importWhitelist')
           /\ k \in Keys(importWhitelist) /\ compiles[b] > 0 =>
                k \in last'.ignoredModules]_vars

\* C2 amended: the same, except that the first compiler does receive the
\* shared name when it is its own bare module name, which line 228 always
\* appends to the ignored modules.
C2_FirstCompilerSeesOnlyOwnBareName ==
  [][\A a \in Addons : \A b \in Addons \ {a} :
       Compiles(a) =>
         \A k \in ModulesOf(a) \cap ModulesOf(b) :
           /\ k \notin Keys(importWhitelist) =>
                /\ k \in last'.ignoredModules <=> k = moduleName(a)
                /\ k \in Keys(importWhitelist')
           /\ k \in Keys(importWhitelist) /\ compiles[b] > 0 =>
                k \in last'.ignoredModules]_vars

\* C2 witness: both addons have compiled once, the second one last, and it
\* received a name, not its bare name, that both declare.
C2_Witness ==
  /\ last.op = "compileAddon" /\ last.linked
  /\ \A a \in Addons : compiles[a] = 1
  /\ importWhitelist \in [Keys(importWhitelist) -> {Entry(last.addon, Default)}]
  /\ \E b \in Addons \ {last.addon} :
       \E k \in Keys(includedModules[b].map) \cap Keys(includedModules[last.addon].map) :
         k \in last.ignoredModules /\ k # last.destDir

\* C3: when the addon's includedModules() is empty, compileAddon returns
\* nothing, does not call the linker and leaves the whitelist as it was.
C3_EmptyAddonShortCircuits ==
  [][\A a \in Addons :
       Compiles(a) /\ Keys(includedModules'[a].map) = {} =>
         /\ last'.op = "compileAddon" /\ last'.addon = a
         /\ last'.outcome = "nothing"
         /\ ~last'.linked
         /\ importWhitelist' = importWhitelist]_vars

\* C3 witness: an addon without modules has been compiled, returned nothing,
\* and the whitelist still holds what the other addon put there.
C3_Witness ==
  /\ last.op = "compileAddon" /\ last.outcome = "nothing" /\ ~last.linked
  /\ Keys(includedModules[last.addon].map) = {}
  /\ files[last.addon] # {}
  /\ \E k \in Keys(importWhitelist) : importWhitelist[k].owner \in Addons


\* the name lowercased, each whitespace character replaced by a hyphen
Slugged(s) ==
  [i \in 1..Len(s) |->
     IF s[i] \in {" ", "\t", "\n", "\r", "\f"} THEN "-" ELSE ToLowerChar(s[i])]

\* C4: moduleName() is idempotent: the first call on an addon with a
\* non-empty name returns the name lowercased with each whitespace character
\* replaced by a hyphen, and every later call returns that same value,
\* whatever `name` has been changed to in between.
C4_ModuleNameIdempotent ==
  [][/\ last'.op = "moduleName" =>
          LET a == last'.addon
          IN /\ modulePrefix[a] # <<>> => last'.retName = modulePrefix[a]
             /\ modulePrefix[a] = <<>> /\ name[a] # <<>> =>
                  /\ last'.retName = Slugged(name[a])
                  /\ last'.retName # <<>>
             /\ modulePrefix'[a] = last'.retName
     /\ \A a \in Addons :
          modulePrefix[a] # <<>> => modulePrefix'[a] = modulePrefix[a]]_vars

\* C4 witness: moduleName() has just returned a value that is not what the
\* addon's present, non-empty name would give: the name changed in between.
C4_Witness ==
  /\ last.op = "moduleName"
  /\ name[last.addon] # <<>>
  /\ last.retName # Slugged(name[last.addon])
  /\ last.retName = Slugged(NameMyA)

\* a path without what follows the last "." of it
WithoutExtension(f) ==
  LET dots == {i \in DOMAIN f : f[i] = "."}
  IN IF dots = {} THEN f ELSE Slice(f, 1, Max(dots) - 1)

JsLike(f) == \E e \in JsExtensions : ExtName(f) = <<".">> \o e

\* a segment of the path starts with "."
Hidden(f) == \E i \in SegmentStarts(f) : i <= Len(f) /\ f[i] = "."

\* <moduleName>/<relative path without extension> per file, and the bare
\* <moduleName> exactly when <moduleName>/index is among them
KeysFor(prefix, fs) ==
  LET ks == {prefix \o <<"/">> \o WithoutExtension(f) : f \in fs}
  IN ks \cup (IF (prefix \o <<"/","i","n","d","e","x">>) \in ks THEN {prefix} ELSE {})

\* the keys a first includedModules() call must return: one per file with
\* a JS-like extension, hidden ones counted or not
ExpectedKeys(a, hiddenToo) ==
  KeysFor(modulePrefix'[a], {f \in files[a] : JsLike(f) /\ (hiddenToo \/ ~Hidden(f))})

\* the shape of an includedModules step
IncludedModulesStep(hiddenToo) ==
  /\ last'.op = "includedModules" =>
       LET a == last'.addon
       IN IF includedModules[a].set
          THEN last'.retModules = includedModules[a].map
          ELSE /\ Keys(last'.retModules) = ExpectedKeys(a, hiddenToo)
               /\ \A k \in Keys(last'.retModules) : last'.retModules[k].exports = Default
               /\ includedModules'[a] = [set |-> TRUE, map |-> last'.retModules]
  /\ \A a \in Addons :
       includedModules[a].set => includedModules'[a] = includedModules[a]

\* C5 as stated: for every set of files, the first includedModules() call
\* returns exactly <moduleName>/<path without extension> for each file with
\* a JS-like extension, plus the bare <moduleName> iff <moduleName>/index is
\* among them, every value ['default']; every later call returns that same
\* mapping even if the files have changed.
C5_EveryJsLikeFile == [][IncludedModulesStep(TRUE)]_vars

\* C5 amended: the same for each file with a JS-like extension none of
\* whose path segments starts with "." (the glob skips hidden files and
\* hidden directories).
C5_EveryVisibleJsLikeFile == [][IncludedModulesStep(FALSE)]_vars

\* C5 witness: includedModules() has just returned a memoized mapping with
\* the bare alias in it that is no longer what the files on disk would give.
C5_Witness ==
  /\ last.op = "includedModules"
  /\ modulePrefix[last.addon] \in Keys(last.retModules)
  /\ Cardinality(Keys(last.retModules)) = 4
  /\ Keys(last.retModules) #
       KeysFor(modulePrefix[last.addon],
               {f \in files[last.addon] : JsLike(f) /\ ~Hidden(f)})

\* C6: treeFor on a category that is no key of treePaths returns an empty
\* composite tree and raises no error, in either mode.
C6_UnknownCategoryEmpty ==
  last.op = "treeFor" /\ last.arg \notin DOMAIN treePaths =>
    last.outcome = "value" /\ last.retTree = <<>>

BothFields(p) ==
  Truthy(p.legacyMain) /\ Truthy(p.main) /\ p.legacyMain.value # p.main.value

\* C7 as stated: resolvePath prefers the current manifest field: with both
\* fields present and different the path is built from the current field,
\* and the legacy field is used only when the current one is absent.
C7_CurrentFieldPreferred ==
  last.op = "resolvePath" =>
    /\ BothFields(pkg) =>
         last.retPath = PathResolve(pkg.path, WithExtension(pkg.main.value))
    /\ Truthy(pkg.main) =>
         last.retPath = PathResolve(pkg.path, WithExtension(pkg.main.value))

\* C7 amended: resolvePath prefers the legacy field: with both fields
\* present and different the path is built from the legacy field, and the
\* current field is used only when the legacy one is absent or empty.
C7_LegacyFieldPreferred ==
  last.op = "resolvePath" =>
    /\ Truthy(pkg.legacyMain) =>
         /\ last.outcome = "value"
         /\ last.retPath = PathResolve(pkg.path, WithExtension(pkg.legacyMain.value))
    /\ ~Truthy(pkg.legacyMain) /\ Truthy(pkg.main) =>
         /\ last.outcome = "value"
         /\ last.retPath = PathResolve(pkg.path, WithExtension(pkg.main.value))

\* C7 witness: resolvePath has returned for a manifest with both fields,
\* different, the current one naming a file with an extension.
C7_Witness ==
  /\ last.op = "resolvePath" /\ last.outcome = "value"
  /\ BothFields(pkg)
  /\ ExtName(pkg.main.value) # <<>>

\* C8: with only the legacy field resolvePath returns <dir>/<legacyMain>.js
\* and prints a deprecation notice; with neither the legacy field nor a
\* current section with a main entry it returns <dir>/index.js, raises no
\* error and prints no notice.
C8_LegacyOnlyAndDefault ==
  last.op = "resolvePath" =>
    /\ Truthy(pkg.legacyMain) /\ ~Truthy(pkg.main) =>
         /\ last.outcome = "value"
         /\ last.notice
         /\ last.retPath = PathResolve(pkg.path, WithExtension(pkg.legacyMain.value))
    /\ ~Truthy(pkg.legacyMain) /\ ~Truthy(pkg.main) =>
         /\ last.outcome = "value"
         /\ ~last.notice
         /\ last.retPath = PathResolve(pkg.path, IndexJs)

\* C9: the input-file scope compileAddon gives the linker is
\* <moduleName>/**/*.js, the directory addonJsFiles puts the scripts in.
C9_ScopeIsModuleName ==
  last.linked => last.inputFiles = last.destDir \o Glob

Disjoint ==
  \A a \in Addons : \A b \in Addons \ {a} : ModulesOf(a) \cap ModulesOf(b) = {}

\* C10 as stated: over addons with pairwise disjoint module names, each
\* compiled any number of times, the ignored modules of X's compile hold no
\* module of X other than X's bare module name.
C10_NeverOwnModules ==
  [][\A x \in Addons :
       Compiles(x) /\ last'.linked /\ Disjoint =>
         last'.ignoredModules \cap ModulesOf(x) \subseteq {moduleName(x)}]_vars

\* C10 amended: that holds of X's first compile of the build, provided the
\* app's own whitelist entries are not modules of X either; every later
\* compile of X is given all of X's modules, which the first one merged in.
C10_OwnModulesFromSecondCompile ==
  [][\A x \in Addons :
       Compiles(x) /\ last'.linked /\ Disjoint =>
         /\ compiles[x] = 0
              /\ (\A k \in Keys(importWhitelist) \cap ModulesOf(x) :
                    importWhitelist[k].owner # "app") =>
              last'.ignoredModules \cap ModulesOf(x) \subseteq {moduleName(x)}
         /\ compiles[x] > 0 => ModulesOf(x) \subseteq last'.ignoredModules]_vars

\* C10 witness: an addon whose modules no other addon declares has been
\* compiled a second time and was given every one of its own modules.
C10_Witness ==
  /\ last.op = "compileAddon" /\ last.linked
  /\ compiles[last.addon] = 2
  /\ \A b \in Addons \ {last.addon} :
       /\ includedModules[b].set
       /\ Keys(includedModules[b].map) \cap Keys(includedModules[last.addon].map) = {}
  /\ Cardinality(Keys(includedModules[last.addon].map)) >= 2
  /\ Keys(includedModules[last.addon].map) \subseteq last.ignoredModules

====
